---- MODULE Spec2Model ----
(***************************************************************************)
(* Model of the batch contribution analyzer (github_batch_analyzer.py):    *)
(* the fetcher and the command it runs, the bounded-parallel fetch         *)
(* coordinator, the aggregation engine, the projection for the charts, and *)
(* the pipeline of main that connects them.                                *)
(*                                                                         *)
(* Python values are modelled as follows.                                  *)
(*   - a str that the code slices or sorts (a date) is the sequence of its *)
(*     characters; other strs are TLA+ strings;                            *)
(*   - a dict is the sequence of its <<key, value>> items in insertion     *)
(*     order, with pairwise distinct keys;                                 *)
(*   - None is the record NoneValue; the optional int of --year is the     *)
(*     empty tuple when absent and <<y>> when given.                       *)
(***************************************************************************)
EXTENDS Integers, Sequences, FiniteSets, TLC

VARIABLES
    main_pc,        \* position of main()
    year,           \* args.year
    queries,        \* the commands run by get_user_contributions so far
    usernames,      \* the identifier list main hands to fetch_contributions_batch
    max_workers,    \* args.max_workers
    response,       \* response[i]: what the external service answers to the i-th query
    coord,          \* position of fetch_contributions_batch
    submitted,      \* number of tasks executor.submit has accepted so far
    task,           \* task[i]: state of the i-th future
    outcome,        \* outcome[i]: what the i-th get_user_contributions call ended with
    results,        \* fetch_contributions_batch: results
    failed_users,   \* fetch_contributions_batch: failed_users
    returned,       \* the components of the value fetch_contributions_batch returned
    batch_data,     \* main: batch_data
    analysis_data,  \* main: analysis_data
    viz_data,       \* main: viz_data
    saved,          \* the documents save_analysis_results has written
    pager_pc,       \* position of the page loop of a user listing
    listing,        \* the listing function that was called
    max_pages,      \* its max_pages argument
    service_pages,  \* what gh api hands back for page 1, 2, ...
    page,           \* the loop variable of range(1, max_pages + 1)
    all_users,      \* all_users / all_members
    requested,      \* the page numbers requested so far, in order
    listed          \* the list the listing function returned

vars == <<main_pc, year, queries, usernames, max_workers, response, coord, submitted, task,
          outcome, results, failed_users, returned, batch_data, analysis_data,
          viz_data, saved, pager_pc, listing, max_pages, service_pages, page, all_users,
          requested, listed>>

pageVars == <<pager_pc, listing, max_pages, service_pages, page, all_users, requested, listed>>

fetchVars == <<year, queries, usernames, max_workers, response, coord, submitted, task,
               outcome, results, failed_users, returned>>

-----------------------------------------------------------------------------
(* Bounds of the model.                                                    *)

\* longest identifier list handed to the fetch coordinator
MaxUsers == 2
\* largest success map handed directly to the aggregation engine
MaxBatch == 2

\* worker bounds tried: strict serialisation, fewer workers than tasks, and
\* the default of fetch_contributions_batch
WorkerBounds == {1, 2, 5}

-----------------------------------------------------------------------------
(* Python values.                                                          *)

NoneValue == [type |-> "NoneType"]

\* Python truthiness of a fetch result: None is falsy, a user object (a dict
\* with the queried keys) is truthy.
Truthy(v) == v # NoneValue

Min(a, b) == IF a <= b THEN a ELSE b

\* s[:n] of a str
PySlicePrefix(s, n) == SubSeq(s, 1, Min(n, Len(s)))

EmptyDict == <<>>

KeySeq(d) == [i \in 1..Len(d) |-> d[i][1]]

KeySet(d) == {d[i][1] : i \in 1..Len(d)}

\* k in d
DictHas(d, k) == k \in KeySet(d)

\* d[k]
DictGet(d, k) == d[CHOOSE i \in 1..Len(d) : d[i][1] = k][2]

\* d[k] = v: an existing key keeps its position, a new key goes last
DictSet(d, k, v) ==
    IF DictHas(d, k)
    THEN [i \in 1..Len(d) |-> IF d[i][1] = k THEN <<k, v>> ELSE d[i]]
    ELSE Append(d, <<k, v>>)

\* the dict as a mapping, insertion order forgotten (dict equality of Python)
AsMap(d) == [k \in KeySet(d) |-> DictGet(d, k)]

RECURSIVE SumSeq(_)
SumSeq(s) == IF s = <<>> THEN 0 ELSE Head(s) + SumSeq(Tail(s))

-----------------------------------------------------------------------------
(* The external service: the GraphQL answers gh can hand back.             *)

Jan01 == <<"2","0","2","4","-","0","1","-","0","1">>
Jan02 == <<"2","0","2","4","-","0","1","-","0","2">>
Feb01 == <<"2","0","2","4","-","0","2","-","0","1">>

Dates == {Jan01, Jan02, Feb01}

Day(d, c) == [date |-> d, contributionCount |-> c]

Week(days) == [contributionDays |-> days]

\* contributionCalendar.weeks as the service may send it: no week, a week
\* without days, several days of one month in one week, weeks in different
\* months, days that are all zero, and one date listed in two day entries.
WeekLists ==
    { <<>>,
      <<Week(<<>>)>>,
      <<Week(<<Day(Jan01, 2)>>)>>,
      <<Week(<<Day(Jan01, 3), Day(Jan02, 0)>>)>>,
      <<Week(<<Day(Jan01, 0), Day(Jan02, 0)>>)>>,
      <<Week(<<Day(Jan02, 1)>>), Week(<<Day(Feb01, 4)>>)>>,
      <<Week(<<Day(Jan01, 1), Day(Feb01, 2)>>), Week(<<Day(Feb01, 1)>>)>>,
      <<Week(<<Day(Jan02, 5)>>), Week(<<>>)>> }

\* The totals of a contributionsCollection: calendar total, commits, issues,
\* pull requests, reviews.  The service reports each on its own; the code reads
\* them as independent fields.
TotalsList ==
    { <<0, 2, 0, 1, 0>>,
      <<5, 3, 1, 0, 1>>,
      <<9, 4, 2, 2, 1>> }

\* data.user of a GraphQL answer for login u
UserObject(u, t, weeks) ==
    [ login |-> u,
      name  |-> u,
      contributionsCollection |->
        [ totalCommitContributions            |-> t[2],
          totalIssueContributions             |-> t[3],
          totalPullRequestContributions       |-> t[4],
          totalPullRequestReviewContributions |-> t[5],
          contributionCalendar |->
            [ totalContributions |-> t[1],
              weeks              |-> weeks ] ] ]

\* data.user of an answer that lacks the contributionsCollection the query
\* asked for
MalformedUser(u) == [login |-> u, name |-> u]

\* user_data["contributionsCollection"] can be read
HasContributions(user_data) == "contributionsCollection" \in DOMAIN user_data

\* What one invocation of `gh api graphql` can end with:
\*   "user"        exit 0, a JSON document whose data.user is an object
\*   "null_user"   exit 0, a JSON document whose data.user is null
\*   "exit_nonzero" gh exits with a non-zero status (CalledProcessError)
\*   "bad_json"    exit 0, stdout is no JSON document (JSONDecodeError)
\*   "os_error"    the process cannot be run at all (an exception that is
\*                 neither CalledProcessError nor JSONDecodeError)
FailureKinds == {"null_user", "exit_nonzero", "bad_json", "os_error"}

Failure(kind) == [kind |-> kind]

Answer(user) == [kind |-> "user", user |-> user]

\* the two user objects the service of the pipeline runs can answer with, so
\* that two queries for one login may see different data
ServiceUser(u, v) ==
    IF v = 1
    THEN UserObject(u, <<5, 3, 1, 0, 1>>, <<Week(<<Day(Jan01, 3), Day(Jan02, 0)>>)>>)
    ELSE UserObject(u, <<0, 2, 0, 1, 0>>, <<Week(<<Day(Jan02, 1)>>), Week(<<Day(Feb01, 4)>>)>>)

Responses(u) ==
    {Answer(ServiceUser(u, v)) : v \in {1, 2}}
        \cup {Answer(MalformedUser(u))}
        \cup {Failure(k) : k \in FailureKinds}

-----------------------------------------------------------------------------
(* get_user_contributions, lines 13-71.                                    *)

\* args.year is None (no --year option), or <<y>> for the int y
NoYear == <<>>

\* if year: (line 22): None and 0 are falsy
YearGiven(y) == y # NoYear /\ y[1] # 0

DigitChar(d) == << "0", "1", "2", "3", "4", "5", "6", "7", "8", "9" >>[d + 1]

RECURSIVE IntStr(_)
\* f'{n}' of an int n
IntStr(n) ==
    IF n < 0 THEN <<"-">> \o IntStr(0 - n)
    ELSE IF n < 10 THEN <<DigitChar(n)>>
    ELSE IntStr(n \div 10) \o <<DigitChar(n % 10)>>

\* the literal '-01-01T00:00:00Z' of line 23
FromSuffix ==
    << "-", "0", "1", "-", "0", "1", "T", "0", "0", ":", "0", "0", ":", "0", "0", "Z" >>

\* the literal '-12-31T23:59:59Z' of line 24
ToSuffix ==
    << "-", "1", "2", "-", "3", "1", "T", "2", "3", ":", "5", "9", ":", "5", "9", "Z" >>

\* the end of the range is sent without its start
BuildCommandToOnly(username, y) ==
    LET to_date == IF YearGiven(y) THEN IntStr(y[1]) \o ToSuffix ELSE <<>>
    IN  << <<"username", username>> >>
           \o (IF to_date # <<>> THEN << <<"to", to_date>> >> ELSE <<>>)

\* The variables of the query that the command of lines 53-55 hands to gh with
\* -f, as <<name, value>> pairs in the order of the command (the query text,
\* the same in every command, left out).  from_date and to_date are the
\* empty str unless a year is given (lines 20-24).
BuildCommand(username, y) ==
    LET from_date == IF YearGiven(y) THEN IntStr(y[1]) \o FromSuffix ELSE <<>>
        to_date   == IF YearGiven(y) THEN IntStr(y[1]) \o ToSuffix ELSE <<>>
    IN  << <<"username", username>> >>
           \o (IF from_date # <<>> /\ to_date # <<>>
               THEN << <<"from", from_date>>, <<"to", to_date>> >>
               ELSE <<>>)

Returns(v) == [raised |-> FALSE, value |-> v]

Raises == [raised |-> TRUE, value |-> NoneValue]

\* return None after print(msg): the caller sees the None, the message goes to
\* standard output
ReturnsNonePrinting(msg) == [raised |-> FALSE, value |-> NoneValue, printed |-> msg]

\* the except clause of line 69 is missing: the JSONDecodeError leaves the
\* function
get_user_contributions_uncaught(resp) ==
    CASE resp.kind = "exit_nonzero" -> ReturnsNonePrinting("Error fetching contribution data")
      [] resp.kind = "bad_json"     -> Raises
      [] resp.kind = "null_user"    -> ReturnsNonePrinting("User not found")
      [] resp.kind = "os_error"     -> Raises
      [] resp.kind = "user"         -> Returns(resp.user)

\* The outcome of get_user_contributions when gh ends with resp (lines 52-71).
\* data.user is returned as it is, whatever it holds (line 64).
get_user_contributions(resp) ==
    CASE resp.kind = "exit_nonzero" -> ReturnsNonePrinting("Error fetching contribution data")
      [] resp.kind = "bad_json"     -> ReturnsNonePrinting("JSON decode error")
      [] resp.kind = "null_user"    -> ReturnsNonePrinting("User not found")
      [] resp.kind = "os_error"     -> Raises
      [] resp.kind = "user"         -> Returns(resp.user)

-----------------------------------------------------------------------------
(* analyze_batch_contributions, lines 132-211.                             *)

\* the count is stored in the bucket instead of being added to it
AddToBucketAssign(d, k, n) == DictSet(d, k, n)

\* d[k] += n, the bucket created at zero when absent (lines 177-179, 183-185)
AddToBucket(d, k, n) ==
    LET d0 == IF ~DictHas(d, k) THEN DictSet(d, k, 0) ELSE d
    IN  DictSet(d0, k, DictGet(d0, k) + n)

\* the bucket key is the year, date[:4]
MonthKeyYear(date) == PySlicePrefix(date, 4)

\* date[:7]
MonthKey(date) == PySlicePrefix(date, 7)

\* One pass of the inner loop body (lines 171-185) over st, the pair of the
\* user_stats being built and aggregate_stats.
ProcessDay(st, day) ==
    LET date  == day.date
        count == day.contributionCount
        us    == st.user_stats
        ag    == st.aggregate_stats
    IN  [ user_stats |->
            [us EXCEPT !.daily_contributions = DictSet(@, date, count)],
          aggregate_stats |->
            [ag EXCEPT !.daily_aggregate   = AddToBucket(@, date, count),
                       !.monthly_aggregate = AddToBucket(@, MonthKey(date), count)] ]

RECURSIVE ProcessDays(_, _)
\* for day in week["contributionDays"] (line 170)
ProcessDays(st, days) ==
    IF days = <<>> THEN st
    ELSE ProcessDays(ProcessDay(st, Head(days)), Tail(days))

RECURSIVE ProcessWeeks(_, _)
\* for week in calendar["weeks"] (line 169)
ProcessWeeks(st, weeks) ==
    IF weeks = <<>> THEN st
    ELSE ProcessWeeks(ProcessDays(st, Head(weeks).contributionDays), Tail(weeks))

\* the calendar total is computed as the sum of the four category totals
NewUserStatsDerivedTotal(username, user_data) ==
    LET contrib_collection == user_data.contributionsCollection
    IN  [ username            |-> username,
          name                |-> user_data.name,
          total_contributions |-> contrib_collection.totalCommitContributions
                                     + contrib_collection.totalIssueContributions
                                     + contrib_collection.totalPullRequestContributions
                                     + contrib_collection.totalPullRequestReviewContributions,
          total_commits       |-> contrib_collection.totalCommitContributions,
          total_issues        |-> contrib_collection.totalIssueContributions,
          total_prs           |-> contrib_collection.totalPullRequestContributions,
          total_reviews       |-> contrib_collection.totalPullRequestReviewContributions,
          daily_contributions |-> EmptyDict ]

\* the user_stats record as created at lines 157-166
NewUserStats(username, user_data) ==
    LET contrib_collection == user_data.contributionsCollection
        calendar           == contrib_collection.contributionCalendar
    IN  [ username            |-> username,
          name                |-> user_data.name,
          total_contributions |-> calendar.totalContributions,
          total_commits       |-> contrib_collection.totalCommitContributions,
          total_issues        |-> contrib_collection.totalIssueContributions,
          total_prs           |-> contrib_collection.totalPullRequestContributions,
          total_reviews       |-> contrib_collection.totalPullRequestReviewContributions,
          daily_contributions |-> EmptyDict ]

\* activity is read off the daily counts instead of the calendar total
IsActiveByDailyCounts(user_stats) ==
    SumSeq([i \in 1..Len(user_stats.daily_contributions) |->
               user_stats.daily_contributions[i][2]]) > 0

\* line 196: the entity counts as active
IsActive(user_stats) == user_stats.total_contributions > 0

\* the issue and pull request totals go into each other's sum
AddTotalsSwapped(ag, user_stats) ==
    [ag EXCEPT !.total_contributions = @ + user_stats.total_contributions,
               !.total_commits       = @ + user_stats.total_commits,
               !.total_issues        = @ + user_stats.total_prs,
               !.total_prs           = @ + user_stats.total_issues,
               !.total_reviews       = @ + user_stats.total_reviews,
               !.active_users        = IF user_stats.total_contributions > 0
                                       THEN @ + 1 ELSE @]

\* lines 190-197: the entity's totals go into the aggregate
AddTotals(ag, user_stats) ==
    [ag EXCEPT !.total_contributions = @ + user_stats.total_contributions,
               !.total_commits       = @ + user_stats.total_commits,
               !.total_issues        = @ + user_stats.total_issues,
               !.total_prs           = @ + user_stats.total_prs,
               !.total_reviews       = @ + user_stats.total_reviews,
               !.active_users        = IF IsActive(user_stats) THEN @ + 1 ELSE @]

\* One pass of the outer loop body (lines 153-197) over acc, the pair of
\* users_stats and aggregate_stats.
AnalyzeUser(acc, username, user_data) ==
    LET calendar == user_data.contributionsCollection.contributionCalendar
        st == ProcessWeeks([ user_stats      |-> NewUserStats(username, user_data),
                             aggregate_stats |-> acc.aggregate_stats ],
                           calendar.weeks)
    IN  [ users_stats     |-> DictSet(acc.users_stats, username, st.user_stats),
          aggregate_stats |-> AddTotals(st.aggregate_stats, st.user_stats) ]

RECURSIVE AnalyzeUsers(_, _)
\* for username, user_data in batch_data.items() (line 152)
\* (the pass is computed before the next one begins: its entity is in
\* users_stats, so the test is always true)
AnalyzeUsers(acc, items) ==
    IF items = <<>> THEN acc
    ELSE LET next == AnalyzeUser(acc, Head(items)[1], Head(items)[2])
         IN  IF Len(next.users_stats) > 0 THEN AnalyzeUsers(next, Tail(items)) ELSE next

\* aggregate_stats as created at lines 139-150
NewAggregateStats(batch) ==
    [ total_users         |-> Len(batch),
      total_contributions |-> 0,
      total_commits       |-> 0,
      total_issues        |-> 0,
      total_prs           |-> 0,
      total_reviews       |-> 0,
      active_users        |-> 0,
      daily_aggregate     |-> EmptyDict,
      top_contributors    |-> <<>>,
      monthly_aggregate   |-> EmptyDict ]

RECURSIVE InsertDesc(_, _, _)
\* index x put into the index list s, which is non-increasing by keys, behind
\* every index whose key is >= its own
InsertDesc(s, x, keys) ==
    IF s = <<>> THEN <<x>>
    ELSE IF keys[Head(s)] >= keys[x]
         THEN <<Head(s)>> \o InsertDesc(Tail(s), x, keys)
         ELSE <<x>> \o s

RECURSIVE SortOrderDesc(_, _)
\* the order in which sorted(..., reverse=True) lists the first n elements of a
\* list with these keys: non-increasing by key, elements with equal keys in
\* their original order (the sort of Python is stable, also when reversed)
SortOrderDesc(keys, n) ==
    IF n = 0 THEN <<>>
    ELSE InsertDesc(SortOrderDesc(keys, n - 1), n, keys)

\* the list is left in the order it was built in
SortedDescUnsorted(s, keys) == s

\* sorted(s, key=lambda x: x[field], reverse=True), keys the list of the x[field]
SortedDesc(s, keys) ==
    LET order == SortOrderDesc(keys, Len(s))
    IN  [i \in 1..Len(s) |-> s[order[i]]]

\* the list comprehension of lines 201-202
ContributorEntries(users_stats) ==
    [ i \in 1..Len(users_stats) |->
        LET u == users_stats[i][2]
        IN  [username |-> u.username, name |-> u.name,
             contributions |-> u.total_contributions] ]

\* entities with equal totals are listed last-merged first
TopContributorsTiesReversed(users_stats) ==
    LET entries  == ContributorEntries(users_stats)
        reversed == [i \in 1..Len(entries) |-> entries[Len(entries) + 1 - i]]
    IN  SortedDesc(reversed, [i \in 1..Len(reversed) |-> reversed[i].contributions])

\* lines 200-205
TopContributors(users_stats) ==
    LET entries == ContributorEntries(users_stats)
    IN  SortedDesc(entries, [i \in 1..Len(entries) |-> entries[i].contributions])

\* The value analyze_batch_contributions returns (analysis_date, the wall
\* clock time of the run, left out).
analyze_batch_contributions(batch) ==
    LET acc == AnalyzeUsers([ users_stats     |-> EmptyDict,
                              aggregate_stats |-> NewAggregateStats(batch) ],
                            batch)
    IN  [ aggregate_stats |->
            [acc.aggregate_stats EXCEPT
                !.top_contributors = TopContributors(acc.users_stats)],
          users_stats |-> acc.users_stats ]

-----------------------------------------------------------------------------
(* create_visualization_data, lines 213-269.                               *)

\* ord(c) of the characters a date or a month key is made of
CharCode(c) ==
    CASE c = "-" -> 45
      [] c = "0" -> 48 [] c = "1" -> 49 [] c = "2" -> 50 [] c = "3" -> 51
      [] c = "4" -> 52 [] c = "5" -> 53 [] c = "6" -> 54 [] c = "7" -> 55
      [] c = "8" -> 56 [] c = "9" -> 57

RECURSIVE StrLess(_, _)
\* a < b of two strs: the first differing character decides, a proper prefix
\* is the smaller
StrLess(a, b) ==
    IF a = <<>> THEN b # <<>>
    ELSE IF b = <<>> THEN FALSE
    ELSE IF Head(a) = Head(b) THEN StrLess(Tail(a), Tail(b))
    ELSE CharCode(Head(a)) < CharCode(Head(b))

RECURSIVE InsertAsc(_, _)
\* the item put into the list s of items, which is ascending by key
InsertAsc(s, item) ==
    IF s = <<>> THEN <<item>>
    ELSE IF StrLess(item[1], Head(s)[1]) THEN <<item>> \o s
    ELSE <<Head(s)>> \o InsertAsc(Tail(s), item)

\* the items are listed in the insertion order of the dict
SortedItemsUnsorted(d) == d

RECURSIVE SortedItems(_)
\* sorted(d.items()) of a dict with str keys: the keys of a dict are pairwise
\* distinct, so the key alone decides the order
SortedItems(d) ==
    IF d = <<>> THEN <<>>
    ELSE InsertAsc(SortedItems(SubSeq(d, 1, Len(d) - 1)), d[Len(d)])

\* the number of ranked users that get a trend series (line 250)
TrendTopUsers == 10

\* every ranked user gets a trend series
TopUsersAll(top_contributors) == top_contributors

\* line 250: top_contributors[:10]
TopUsers(top_contributors) == PySlicePrefix(top_contributors, TrendTopUsers)

\* lines 256-262: the series of one user, sorted(daily_contrib.keys()) walked
TrendSeries(daily_contrib) ==
    LET items == SortedItems(daily_contrib)
    IN  [i \in 1..Len(items) |->
            [date |-> items[i][1], contributions |-> DictGet(daily_contrib, items[i][1])]]

RECURSIVE TrendData(_, _, _)
\* for user in top_users (lines 253-262), trend_data so far being acc
TrendData(acc, top_users, users_stats) ==
    IF top_users = <<>> THEN acc
    ELSE LET username == Head(top_users).username
         IN  TrendData(IF DictHas(users_stats, username)
                       THEN DictSet(acc, username,
                                TrendSeries(DictGet(users_stats, username).daily_contributions))
                       ELSE acc,
                       Tail(top_users), users_stats)

\* the issue and the pull request totals are stored under each other's key
UserComparisonEntriesSwapped(users_stats) ==
    [ i \in 1..Len(users_stats) |->
        LET user_data == users_stats[i][2]
        IN  [ username            |-> user_data.username,
              name                |-> user_data.name,
              total_contributions |-> user_data.total_contributions,
              commits             |-> user_data.total_commits,
              issues              |-> user_data.total_prs,
              prs                 |-> user_data.total_issues,
              reviews             |-> user_data.total_reviews ] ]

\* the entries in the reverse of the order of the dict
UserComparisonEntriesReversed(users_stats) ==
    [ i \in 1..Len(users_stats) |->
        LET user_data == users_stats[Len(users_stats) + 1 - i][2]
        IN  [ username            |-> user_data.username,
              name                |-> user_data.name,
              total_contributions |-> user_data.total_contributions,
              commits             |-> user_data.total_commits,
              issues              |-> user_data.total_issues,
              prs                 |-> user_data.total_prs,
              reviews             |-> user_data.total_reviews ] ]

\* lines 237-247: one entry per value of users_stats, in the order of the dict
UserComparisonEntries(users_stats) ==
    [ i \in 1..Len(users_stats) |->
        LET user_data == users_stats[i][2]
        IN  [ username            |-> user_data.username,
              name                |-> user_data.name,
              total_contributions |-> user_data.total_contributions,
              commits             |-> user_data.total_commits,
              issues              |-> user_data.total_issues,
              prs                 |-> user_data.total_prs,
              reviews             |-> user_data.total_reviews ] ]

\* The value create_visualization_data returns.
create_visualization_data(analysis) ==
    LET aggregate_stats == analysis.aggregate_stats
        users_stats     == analysis.users_stats
        daily           == SortedItems(aggregate_stats.daily_aggregate)
        monthly         == SortedItems(aggregate_stats.monthly_aggregate)
        user_comparison == UserComparisonEntries(users_stats)
    IN  [ daily_aggregate |->
            [i \in 1..Len(daily) |->
                [date |-> daily[i][1], total_contributions |-> daily[i][2]]],
          monthly_aggregate |->
            [i \in 1..Len(monthly) |->
                [month |-> monthly[i][1], total_contributions |-> monthly[i][2]]],
          user_comparison |->
            SortedDesc(user_comparison,
                       [i \in 1..Len(user_comparison) |->
                           user_comparison[i].total_contributions]),
          top_users_trend |->
            TrendData(EmptyDict, TopUsers(aggregate_stats.top_contributors), users_stats) ]

-----------------------------------------------------------------------------
(* save_analysis_results, lines 271-294.                                   *)

\* the length of the ranking slice of the summary document (line 286)
SummaryTopUsers == 20

\* the summary document, lines 284-287
SummaryDocument(analysis) ==
    [ summary          |-> analysis.aggregate_stats,
      top_contributors |->
          PySlicePrefix(analysis.aggregate_stats.top_contributors, SummaryTopUsers) ]

\* The documents save_analysis_results writes, by the suffix of the file name.
save_analysis_results(analysis, viz) ==
    [ full_analysis      |-> analysis,
      visualization_data |-> viz,
      summary            |-> SummaryDocument(analysis) ]

-----------------------------------------------------------------------------
(* fetch_contributions_batch, lines 93-130, and main, lines 351-371.       *)

Logins == {"alice", "bob", "carol"}

\* the logins the users file of a pipeline run may list
QueriedLogins == {"alice", "bob"}

\* the users files main may load: any list of at most MaxUsers logins,
\* repetitions included
UserLists == UNION {[1..n -> QueriedLogins] : n \in 0..MaxUsers}

\* the pipeline runs are started without the --year option
PipelineYears == {NoYear}

\* the outcome slot of a call that has not ended
NotYet == [pending |-> TRUE]

TaskIds == 1..Len(usernames)

InFlight == {i \in TaskIds : task[i] = "running"}

\* the pool starts a thread for every work item, whatever max_workers is
WorkerAvailableUnbounded == TRUE

\* A pool thread is free to take a work item: the executor never runs more
\* than max_workers threads (line 103).
WorkerAvailable == Cardinality(InFlight) < max_workers

\* the loop is left as soon as one future has been merged
SomeCollected == \E i \in TaskIds : task[i] = "collected"

\* as_completed has yielded every future (the for loop of line 110 is over)
AllCollected == \A i \in TaskIds : task[i] = "collected"

\* the result is stored without the test of line 114
MergeResultUnchecked(res, failed, username, o) ==
    IF o.raised
    THEN [results |-> res, failed_users |-> Append(failed, username), coord |-> "wait"]
    ELSE [results |-> DictSet(res, username, o.value), failed_users |-> failed,
          coord |-> "sleep"]

\* the map is rebuilt from the result at hand instead of being extended
MergeResultKeepsLast(res, failed, username, o) ==
    IF o.raised
    THEN [results |-> res, failed_users |-> Append(failed, username), coord |-> "wait"]
    ELSE IF Truthy(o.value)
    THEN [results |-> <<<<username, o.value>>>>, failed_users |-> failed,
          coord |-> "sleep"]
    ELSE [results |-> res, failed_users |-> Append(failed, username), coord |-> "sleep"]

\* no except clause around future.result(): the exception of a worker leaves
\* the loop and the function
MergeResultAborts(res, failed, username, o) ==
    IF o.raised
    THEN [results |-> res, failed_users |-> failed, coord |-> "aborted"]
    ELSE IF Truthy(o.value)
    THEN [results |-> DictSet(res, username, o.value), failed_users |-> failed,
          coord |-> "sleep"]
    ELSE [results |-> res, failed_users |-> Append(failed, username), coord |-> "sleep"]

\* every identifier goes on the failure list, the fetched ones too
MergeResultListsAll(res, failed, username, o) ==
    IF o.raised
    THEN [results |-> res, failed_users |-> Append(failed, username), coord |-> "wait"]
    ELSE IF Truthy(o.value)
    THEN [results |-> DictSet(res, username, o.value),
          failed_users |-> Append(failed, username), coord |-> "sleep"]
    ELSE [results |-> res, failed_users |-> Append(failed, username), coord |-> "sleep"]

\* The body of the as_completed loop (lines 111-124) for the future of
\* username that ended with o: the new results and failed_users, and where the
\* coordinator goes next.
MergeResult(res, failed, username, o) ==
    IF o.raised
    THEN \* future.result() re-raises: the except clause of line 122
         [results |-> res, failed_users |-> Append(failed, username), coord |-> "wait"]
    ELSE IF Truthy(o.value)
    THEN [results |-> DictSet(res, username, o.value), failed_users |-> failed,
          coord |-> "sleep"]
    ELSE [results |-> res, failed_users |-> Append(failed, username), coord |-> "sleep"]

\* the function returns the pair of the map and the failure list
ReturnValueWithFailures(res, failed) == <<res, failed>>

\* what fetch_contributions_batch hands back at line 130
ReturnValue(res, failed) == <<res>>

\* main, lines 352-364: the users file is loaded; an empty list ends the run,
\* any other is handed to fetch_contributions_batch.
LoadUsers ==
    /\ main_pc = "load"
    /\ IF usernames = <<>>
       THEN /\ main_pc' = "exit"
            /\ UNCHANGED coord
       ELSE /\ main_pc' = "fetch"
            /\ coord' = "submit"
    /\ UNCHANGED <<year, queries, usernames, max_workers, response, submitted, task, outcome,
                   results, failed_users, returned, batch_data, analysis_data,
                   viz_data, saved, pageVars>>

\* an identifier that was submitted before is not submitted again
SubmitDeduplicates ==
    /\ coord = "submit"
    /\ submitted < Len(usernames)
    /\ submitted' = submitted + 1
    /\ task' = [task EXCEPT ![submitted + 1] =
                    IF \E j \in 1..submitted : usernames[j] = usernames[submitted + 1]
                    THEN "collected" ELSE "queued"]
    /\ coord' = IF submitted + 1 = Len(usernames) THEN "wait" ELSE "submit"
    /\ UNCHANGED <<main_pc, year, queries, usernames, max_workers, response, outcome,
                   results, failed_users, returned, batch_data, analysis_data,
                   viz_data, saved, pageVars>>

\* lines 105-108: executor.submit for the next username, in input order
Submit ==
    /\ coord = "submit"
    /\ submitted < Len(usernames)
    /\ submitted' = submitted + 1
    /\ task' = [task EXCEPT ![submitted + 1] = "queued"]
    /\ coord' = IF submitted + 1 = Len(usernames) THEN "wait" ELSE "submit"
    /\ UNCHANGED <<main_pc, year, queries, usernames, max_workers, response, outcome, results,
                   failed_users, returned, batch_data, analysis_data,
                   viz_data, saved, pageVars>>

\* a pool thread takes the oldest queued work item and calls
\* get_user_contributions, which runs its gh command (line 57)
Start(i) ==
    /\ task[i] = "queued"
    /\ \A j \in 1..(i - 1) : task[j] # "queued"
    /\ WorkerAvailable
    /\ task' = [task EXCEPT ![i] = "running"]
    /\ queries' = Append(queries, BuildCommand(usernames[i], year))
    /\ UNCHANGED <<main_pc, year, usernames, max_workers, response, coord, submitted,
                   outcome, results, failed_users, returned, batch_data,
                   analysis_data, viz_data, saved, pageVars>>

\* the pool thread stores what its call returned in the shared map itself
FinishWritesMap(i) ==
    /\ task[i] = "running"
    /\ task' = [task EXCEPT ![i] = "done"]
    /\ outcome' = [outcome EXCEPT ![i] = get_user_contributions(response[i])]
    /\ results' = IF ~outcome'[i].raised /\ Truthy(outcome'[i].value)
                  THEN DictSet(results, usernames[i], outcome'[i].value)
                  ELSE results
    /\ UNCHANGED <<main_pc, year, queries, usernames, max_workers, response, coord, submitted,
                   failed_users, returned, batch_data, analysis_data, viz_data, saved, pageVars>>

\* the call of get_user_contributions for task i ends and its future completes
Finish(i) ==
    /\ task[i] = "running"
    /\ task' = [task EXCEPT ![i] = "done"]
    /\ outcome' = [outcome EXCEPT ![i] = get_user_contributions(response[i])]
    /\ UNCHANGED <<main_pc, year, queries, usernames, max_workers, response, coord, submitted,
                   results, failed_users, returned, batch_data, analysis_data,
                   viz_data, saved, pageVars>>

\* lines 110-124: as_completed yields the completed future i and the loop
\* body merges its result
Collect(i) ==
    /\ coord = "wait"
    /\ task[i] = "done"
    /\ LET m == MergeResult(results, failed_users, usernames[i], outcome[i])
       IN  /\ results' = m.results
           /\ failed_users' = m.failed_users
           /\ coord' = m.coord
    /\ task' = [task EXCEPT ![i] = "collected"]
    /\ UNCHANGED <<main_pc, year, queries, usernames, max_workers, response, submitted, outcome,
                   returned, batch_data, analysis_data,
                   viz_data, saved, pageVars>>

\* line 120: time.sleep(0.2) is over
Wake ==
    /\ coord = "sleep"
    /\ coord' = "wait"
    /\ UNCHANGED <<main_pc, year, queries, usernames, max_workers, response, submitted, task,
                   outcome, results, failed_users, returned, batch_data,
                   analysis_data, viz_data, saved, pageVars>>

\* lines 125-130 and 364: the loop is over, the executor is shut down, and the
\* function returns to main
Return ==
    /\ coord = "wait"
    /\ AllCollected
    /\ coord' = "returned"
    /\ returned' = ReturnValue(results, failed_users)
    /\ batch_data' = returned'[1]
    /\ main_pc' = "check"
    /\ UNCHANGED <<year, queries, usernames, max_workers, response, submitted, task, outcome,
                   results, failed_users, analysis_data, viz_data, saved, pageVars>>

\* the test of line 366 is missing: the aggregation runs on whatever came back
CheckBatchAlwaysAnalyzes ==
    /\ main_pc = "check"
    /\ main_pc' = "analyze"
    /\ UNCHANGED <<fetchVars, batch_data, analysis_data, viz_data, saved, pageVars>>

\* lines 366-368
CheckBatch ==
    /\ main_pc = "check"
    /\ main_pc' = IF batch_data = EmptyDict THEN "exit" ELSE "analyze"
    /\ UNCHANGED <<fetchVars, batch_data, analysis_data,
                   viz_data, saved, pageVars>>

\* line 154 raises KeyError for some entity of the map: the loop of line 152
\* reads user_data["contributionsCollection"] of every entity
AnalysisRaises(batch) == \E i \in 1..Len(batch) : ~HasContributions(batch[i][2])

\* line 371: analyze_batch_contributions returns, or its KeyError, which
\* nothing in main catches, ends the run
Analyze ==
    /\ main_pc = "analyze"
    /\ IF AnalysisRaises(batch_data)
       THEN /\ main_pc' = "crashed"
            /\ UNCHANGED analysis_data
       ELSE /\ analysis_data' = analyze_batch_contributions(batch_data)
            /\ main_pc' = "visualize"
    /\ UNCHANGED <<fetchVars, batch_data, viz_data, saved, pageVars>>

\* line 374
CreateVisualization ==
    /\ main_pc = "visualize"
    /\ viz_data' = create_visualization_data(analysis_data)
    /\ main_pc' = "summary"
    /\ UNCHANGED <<fetchVars, batch_data, analysis_data, saved, pageVars>>

\* line 377: print_analysis_summary writes to standard output only
PrintSummary ==
    /\ main_pc = "summary"
    /\ main_pc' = "save"
    /\ UNCHANGED <<fetchVars, batch_data, analysis_data, viz_data, saved, pageVars>>

\* lines 380-381: the three documents are written unless --summary-only is set
SaveResults ==
    /\ main_pc = "save"
    /\ \E summary_only \in BOOLEAN :
          saved' = IF summary_only THEN saved
                   ELSE save_analysis_results(analysis_data, viz_data)
    /\ main_pc' = "done"
    /\ UNCHANGED <<fetchVars, batch_data, analysis_data, viz_data, pageVars>>

-----------------------------------------------------------------------------
(* The pipeline: main from the loading of the users file on.               *)

NoAnalysis == [pending |-> TRUE]

NoVisualization == [pending |-> TRUE]

-----------------------------------------------------------------------------
(* The user listings of github_users_enhanced.py and github_users_gh.py:   *)
(* one gh api request per page, the pages collected into one list.         *)

\* the query / org_name argument
QueryArg == "acme"

\* a user object of the search endpoint
SearchItem(l) ==
    [login |-> l, id |-> l, avatar_url |-> "avatar", html_url |-> "html",
     type |-> "User", site_admin |-> FALSE, score |-> 1]

\* a user object of the members endpoint: no score
MemberItem(l) ==
    [login |-> l, id |-> l, avatar_url |-> "avatar", html_url |-> "html",
     type |-> "User", site_admin |-> TRUE]

\* an object without the login key
BrokenItem == [id |-> "p0", type |-> "User"]

\* The outcomes of subprocess.run and json.loads for one page: the user
\* objects of the page (under "items" for the search endpoint, the array
\* itself for the members endpoint), a JSON object that carries no users, a
\* non-zero exit of gh, and output that is no JSON.
PageAnswers ==
    { [status |-> "ok", users |-> <<>>],
      [status |-> "ok", users |-> <<SearchItem("p1")>>],
      [status |-> "ok", users |-> <<SearchItem("p2"), MemberItem("p3")>>],
      [status |-> "ok", users |-> <<MemberItem("p4"), BrokenItem>>],
      [status |-> "object"],
      [status |-> "request_failed", stderr |-> "Not Found"],
      [status |-> "request_failed", stderr |-> "rate limit"],
      [status |-> "bad_json"] }

Listings ==
    { "github_users_enhanced.search_github_users_with_gh",
      "github_users_enhanced.get_organization_members",
      "github_users_gh.search_github_users_with_gh" }

\* the keys every listing reads with user[...]
SubscriptedKeys == {"login", "id", "avatar_url", "html_url", "type"}

\* github_users_enhanced.py lines 35-43: a KeyError when a subscripted key is
\* missing, score read with get
SearchUserInfo(user) ==
    IF ~(SubscriptedKeys \subseteq DOMAIN user) THEN Raises
    ELSE Returns([ login      |-> user.login,
                   id         |-> user.id,
                   avatar_url |-> user.avatar_url,
                   html_url   |-> user.html_url,
                   type       |-> user.type,
                   score      |-> IF "score" \in DOMAIN user THEN user.score ELSE 0,
                   source     |-> "search" ])

\* github_users_enhanced.py lines 86-94
MemberInfo(member) ==
    IF ~(SubscriptedKeys \subseteq DOMAIN member) THEN Raises
    ELSE Returns([ login      |-> member.login,
                   id         |-> member.id,
                   avatar_url |-> member.avatar_url,
                   html_url   |-> member.html_url,
                   type       |-> member.type,
                   site_admin |-> IF "site_admin" \in DOMAIN member
                                  THEN member.site_admin ELSE FALSE,
                   source     |-> <<"org_member:", QueryArg>> ])

\* github_users_gh.py lines 33-40: score is subscripted too
GhSearchUserInfo(user) ==
    IF ~((SubscriptedKeys \cup {"score"}) \subseteq DOMAIN user) THEN Raises
    ELSE Returns([ login      |-> user.login,
                   id         |-> user.id,
                   avatar_url |-> user.avatar_url,
                   html_url   |-> user.html_url,
                   type       |-> user.type,
                   score      |-> user.score ])

UserInfo(fn, user) ==
    IF fn = "github_users_enhanced.search_github_users_with_gh" THEN SearchUserInfo(user)
    ELSE IF fn = "github_users_enhanced.get_organization_members" THEN MemberInfo(user)
    ELSE GhSearchUserInfo(user)

RECURSIVE AppendUsers(_, _, _)
\* the for loop over the users of a page: the entries appended before a
\* KeyError stay in the list, the exception leaves the function
AppendUsers(fn, acc, users) ==
    IF users = <<>> THEN [all_users |-> acc, exit |-> "continue"]
    ELSE LET info == UserInfo(fn, Head(users))
         IN  IF info.raised THEN [all_users |-> acc, exit |-> "raise"]
             ELSE AppendUsers(fn, Append(acc, info.value), Tail(users))

\* the list is emptied when a request fails
ListingPageDropsOnError(fn, answer, acc) ==
    IF answer.status \in {"request_failed", "bad_json"}
    THEN [all_users |-> <<>>, exit |-> "break"]
    ELSE IF answer.status = "object"
    THEN IF fn = "github_users_enhanced.get_organization_members"
         THEN [all_users |-> acc, exit |-> "raise"]
         ELSE [all_users |-> acc, exit |-> "break"]
    ELSE IF answer.users = <<>>
    THEN [all_users |-> acc, exit |-> "break"]
    ELSE AppendUsers(fn, acc, answer.users)

\* One pass of the body of the page loop on the outcome of the request.
\* CalledProcessError and JSONDecodeError are caught and break the loop; a
\* JSON object without "items" gives data.get("items", []) = [] in the two
\* searches, and in get_organization_members is a non-empty dict whose keys
\* are subscripted with "login": a TypeError no clause catches.
ListingPage(fn, answer, acc) ==
    IF answer.status \in {"request_failed", "bad_json"}
    THEN [all_users |-> acc, exit |-> "break"]
    ELSE IF answer.status = "object"
    THEN IF fn = "github_users_enhanced.get_organization_members"
         THEN [all_users |-> acc, exit |-> "raise"]
         ELSE [all_users |-> acc, exit |-> "break"]
    ELSE IF answer.users = <<>>
    THEN [all_users |-> acc, exit |-> "break"]
    ELSE AppendUsers(fn, acc, answer.users)

\* one iteration of for page in range(1, max_pages + 1)
FetchPage ==
    /\ pager_pc = "loop"
    /\ page <= max_pages
    /\ requested' = Append(requested, page)
    /\ LET pass == ListingPage(listing, service_pages[page], all_users)
       IN  /\ all_users' = pass.all_users
           /\ pager_pc' = IF pass.exit = "continue" THEN "loop"
                          ELSE IF pass.exit = "break" THEN "break" ELSE "raised"
           /\ page' = IF pass.exit = "continue" THEN page + 1 ELSE page
    /\ UNCHANGED <<listing, max_pages, service_pages, listed>>
    /\ UNCHANGED <<main_pc, fetchVars, batch_data, analysis_data, viz_data, saved>>

\* return all_users, after a break or when the range is exhausted
ReturnUsers ==
    /\ \/ pager_pc = "break"
       \/ pager_pc = "loop" /\ page > max_pages
    /\ listed' = all_users
    /\ pager_pc' = "returned"
    /\ UNCHANGED <<listing, max_pages, service_pages, page, all_users, requested>>
    /\ UNCHANGED <<main_pc, fetchVars, batch_data, analysis_data, viz_data, saved>>

\* no listing is running
NoListing ==
    /\ pager_pc = "idle"
    /\ listing = "none"
    /\ max_pages = 0
    /\ service_pages = <<>>
    /\ page = 0
    /\ all_users = <<>>
    /\ requested = <<>>
    /\ listed = <<>>

\* no document has been written
NoFiles == [pending |-> TRUE]

Init ==
    /\ main_pc = "load"
    /\ year \in PipelineYears
    /\ queries = <<>>
    /\ usernames \in UserLists
    /\ max_workers \in WorkerBounds
    /\ response \in {r \in [1..Len(usernames) -> UNION {Responses(u) : u \in QueriedLogins}] :
                        \A i \in 1..Len(usernames) : r[i] \in Responses(usernames[i])}
    /\ coord = "idle"
    /\ submitted = 0
    /\ task = [i \in 1..Len(usernames) |-> "new"]
    /\ outcome = [i \in 1..Len(usernames) |-> NotYet]
    /\ results = EmptyDict
    /\ failed_users = <<>>
    /\ returned = <<>>
    /\ batch_data = EmptyDict
    /\ analysis_data = NoAnalysis
    /\ viz_data = NoVisualization
    /\ saved = NoFiles
    /\ NoListing

Next ==
    \/ LoadUsers
    \/ Submit
    \/ \E i \in TaskIds : Start(i)
    \/ \E i \in TaskIds : Finish(i)
    \/ \E i \in TaskIds : Collect(i)
    \/ Wake
    \/ Return
    \/ CheckBatch
    \/ Analyze
    \/ CreateVisualization
    \/ PrintSummary
    \/ SaveResults

Spec == Init /\ [][Next]_vars

\* the steps of fetch_contributions_batch and of its pool threads
FetchNext ==
    \/ Submit
    \/ \E i \in TaskIds : Start(i)
    \/ \E i \in TaskIds : Finish(i)
    \/ \E i \in TaskIds : Collect(i)
    \/ Wake
    \/ Return

\* fetch_contributions_batch does not stop while one of its steps is possible:
\* the interpreter schedules every thread that can run, and every external
\* call ends.  No step of a run can be taken twice, so this keeps every thread
\* moving.
FairSpec == Spec /\ WF_vars(FetchNext)

-----------------------------------------------------------------------------
(* The pipeline on a users file with one identifier, for every --year      *)
(* option tried: none, zero, a negative year, years of one to four digits. *)

YearArgs == {NoYear} \cup {<<y>> : y \in {0 - 1, 0, 5, 1999, 2024, 2025}}

InitQuery ==
    /\ main_pc = "load"
    /\ year \in YearArgs
    /\ queries = <<>>
    /\ usernames \in {<<u>> : u \in QueriedLogins}
    /\ max_workers \in WorkerBounds
    /\ response \in {<<r>> : r \in Responses(usernames[1])}
    /\ coord = "idle"
    /\ submitted = 0
    /\ task = <<"new">>
    /\ outcome = <<NotYet>>
    /\ results = EmptyDict
    /\ failed_users = <<>>
    /\ returned = <<>>
    /\ batch_data = EmptyDict
    /\ analysis_data = NoAnalysis
    /\ viz_data = NoVisualization
    /\ saved = NoFiles
    /\ NoListing

SpecQuery == InitQuery /\ [][Next]_vars

-----------------------------------------------------------------------------
(* The aggregation engine on its own: analyze_batch_contributions applied  *)
(* to any success map of at most MaxBatch entities.                        *)

InjectiveSeqs(n) == {ks \in [1..n -> Logins] : \A i, j \in 1..n : ks[i] = ks[j] => i = j}

\* the success map with the keys ks in this order, the i-th of them with the
\* totals tw[i][1] and the calendar weeks tw[i][2]
BatchOf(ks, tw) ==
    [i \in 1..Len(ks) |-> <<ks[i], UserObject(ks[i], tw[i][1], tw[i][2])>>]

InitAnalyze ==
    /\ main_pc = "analyze"
    /\ \E n \in 0..MaxBatch :
          \E ks \in InjectiveSeqs(n), tw \in [1..n -> TotalsList \X WeekLists] :
              batch_data = BatchOf(ks, tw)
    /\ analysis_data = NoAnalysis
    /\ viz_data = NoVisualization
    /\ saved = NoFiles
    /\ NoListing
    /\ year = NoYear
    /\ queries = <<>>
    /\ usernames = <<>>
    /\ max_workers = 3
    /\ response = <<>>
    /\ coord = "idle"
    /\ submitted = 0
    /\ task = <<>>
    /\ outcome = <<>>
    /\ results = EmptyDict
    /\ failed_users = <<>>
    /\ returned = <<>>

NextAnalyze ==
    \/ Analyze
    \/ CreateVisualization
    \/ PrintSummary
    \/ SaveResults

SpecAnalyze == InitAnalyze /\ [][NextAnalyze]_vars

-----------------------------------------------------------------------------
(* The aggregation engine and the projection on success maps with more     *)
(* entities than the trend projection keeps: maps of TrendTopUsers to      *)
(* MaxRanked entities, each with one of two totals and a calendar whose    *)
(* days the service lists out of date order.                               *)

\* largest success map of the runs with more entities than trend series
MaxRanked == 11

RankedLogins ==
    << "u01", "u02", "u03", "u04", "u05", "u06", "u07", "u08", "u09", "u10",
       "u11", "u12", "u13", "u14", "u15", "u16", "u17", "u18", "u19", "u20",
       "u21", "u22", "u23", "u24" >>

RankedTotals == { <<5, 3, 1, 0, 1>>, <<9, 4, 2, 2, 1>> }

RankedWeeks == << Week(<<Day(Feb01, 4), Day(Jan02, 1)>>), Week(<<Day(Jan01, 2)>>) >>

InitLargeBatch ==
    /\ main_pc = "analyze"
    /\ \E n \in TrendTopUsers..MaxRanked :
          \E t \in [1..n -> RankedTotals] :
              batch_data = [i \in 1..n |->
                               <<RankedLogins[i], UserObject(RankedLogins[i], t[i], RankedWeeks)>>]
    /\ analysis_data = NoAnalysis
    /\ viz_data = NoVisualization
    /\ saved = NoFiles
    /\ NoListing
    /\ year = NoYear
    /\ queries = <<>>
    /\ usernames = <<>>
    /\ max_workers = 3
    /\ response = <<>>
    /\ coord = "idle"
    /\ submitted = 0
    /\ task = <<>>
    /\ outcome = <<>>
    /\ results = EmptyDict
    /\ failed_users = <<>>
    /\ returned = <<>>

InitProject == InitAnalyze \/ InitLargeBatch

SpecProject == InitProject /\ [][NextAnalyze]_vars

-----------------------------------------------------------------------------
(* The same on success maps with more entities than the ranking slice of   *)
(* the summary document keeps: maps of SummaryTopUsers to MaxSummarised    *)
(* entities of equal totals, or with one entity of a larger total.         *)

\* largest success map of the runs with more entities than the summary lists
MaxSummarised == 21

InitSummaryBatch ==
    /\ main_pc = "analyze"
    /\ \E n \in SummaryTopUsers..MaxSummarised :
          \E k \in 0..n :
              batch_data = [i \in 1..n |->
                               <<RankedLogins[i],
                                 UserObject(RankedLogins[i],
                                            IF i = k THEN <<9, 4, 2, 2, 1>>
                                                     ELSE <<5, 3, 1, 0, 1>>,
                                            RankedWeeks)>>]
    /\ analysis_data = NoAnalysis
    /\ viz_data = NoVisualization
    /\ saved = NoFiles
    /\ NoListing
    /\ year = NoYear
    /\ queries = <<>>
    /\ usernames = <<>>
    /\ max_workers = 3
    /\ response = <<>>
    /\ coord = "idle"
    /\ submitted = 0
    /\ task = <<>>
    /\ outcome = <<>>
    /\ results = EmptyDict
    /\ failed_users = <<>>
    /\ returned = <<>>

SpecSummary == InitSummaryBatch /\ [][NextAnalyze]_vars

\* most pages the service holds for a listing
MaxPages == 3

\* A listing function was called with some max_pages, against a service that
\* holds MaxPages pages (requests beyond them are never made: max_pages is at
\* most MaxPages).
InitPages ==
    /\ pager_pc = "loop"
    /\ listing \in Listings
    /\ max_pages \in 0..MaxPages
    /\ service_pages \in [1..MaxPages -> PageAnswers]
    /\ page = 1
    /\ all_users = <<>>
    /\ requested = <<>>
    /\ listed = <<>>
    /\ main_pc = "load"
    /\ batch_data = EmptyDict
    /\ analysis_data = NoAnalysis
    /\ viz_data = NoVisualization
    /\ saved = NoFiles
    /\ year = NoYear
    /\ queries = <<>>
    /\ usernames = <<>>
    /\ max_workers = 3
    /\ response = <<>>
    /\ coord = "idle"
    /\ submitted = 0
    /\ task = <<>>
    /\ outcome = <<>>
    /\ results = EmptyDict
    /\ failed_users = <<>>
    /\ returned = <<>>

NextPages == FetchPage \/ ReturnUsers

SpecPages == InitPages /\ [][NextPages]_vars

-----------------------------------------------------------------------------
(* Properties of the fetch coordinator and of the pipeline.                *)

\* the queries of the run that the service answered with a user object
Succeeded == {i \in TaskIds : response[i].kind = "user"}

\* C1: in every reachable state the number of get_user_contributions calls
\* that have started and not yet finished is at most the worker bound.
C1_InFlightAtMostW == Cardinality({i \in TaskIds : task[i] = "running"}) <= max_workers

\* the pool is saturated while a submitted task waits for a free worker
C1_Witness ==
    /\ Cardinality({i \in TaskIds : task[i] = "running"}) = max_workers
    /\ \E i \in TaskIds : task[i] = "queued"

\* C2: when fetch_contributions_batch has returned, the keys of the success
\* map are exactly the identifiers with a fetch that produced a record, each
\* key maps to a record a fetch of that identifier returned, and an identifier
\* whose fetches all failed is no key.
C2_SuccessMapIsTheSuccesses ==
    coord = "returned" =>
        /\ KeySet(batch_data) = {usernames[i] : i \in Succeeded}
        /\ \A k \in KeySet(batch_data) :
              \E i \in Succeeded :
                  usernames[i] = k /\ DictGet(batch_data, k) = response[i].user
        /\ \A i \in TaskIds :
              (\A j \in TaskIds : usernames[j] = usernames[i] => j \notin Succeeded)
                  => usernames[i] \notin KeySet(batch_data)

\* a run that returned with one identifier fetched and another one lost
C2_Witness ==
    /\ coord = "returned"
    /\ \E i, j \in TaskIds :
          /\ i \in Succeeded /\ j \notin Succeeded
          /\ usernames[i] # usernames[j]
          /\ usernames[i] \in KeySet(batch_data)

\* C3 as stated: the caller is handed the success map together with the list
\* of the identifiers that failed.
C3_FailureListReturned ==
    coord = "returned" => Len(returned) = 2 /\ returned[2] = failed_users

\* C3 as amended: the caller is handed the success map and nothing else; the
\* failure list stays inside fetch_contributions_batch.
C3_OnlySuccessMapReturned ==
    coord = "returned" =>
        /\ Len(returned) = 1
        /\ returned[1] = results
        /\ batch_data = results

\* a run that returned with a non-empty failure list the caller never sees
C3_Witness ==
    /\ coord = "returned"
    /\ failed_users # <<>>
    /\ Len(returned) = 1

\* the fetcher's outcome is a function of the identifier only
FetcherIsFunctionOfId ==
    \A i, j \in TaskIds : usernames[i] = usernames[j] => response[i] = response[j]

\* the success map as a function of the input and of the fetcher alone: no
\* worker bound and no completion order enters it
ExpectedSuccessMap ==
    [ u \in {usernames[i] : i \in Succeeded} |->
        response[CHOOSE i \in Succeeded : usernames[i] = u].user ]

\* C4: with a fetcher whose outcome is a function of the identifier, the
\* success map returned is the same mapping for every worker bound (1 and 5
\* among them) and every completion order.
C4_SuccessMapIndependentOfSchedule ==
    (coord = "returned" /\ FetcherIsFunctionOfId)
        => AsMap(batch_data) = ExpectedSuccessMap

\* a run with worker bound 5 whose fetches were merged in the reverse of the
\* input order
C4_Witness ==
    /\ coord = "returned"
    /\ FetcherIsFunctionOfId
    /\ max_workers = 5
    /\ Len(usernames) >= 2
    /\ Len(batch_data) = Len(usernames)
    /\ \A i \in TaskIds : batch_data[i][1] = usernames[Len(usernames) + 1 - i]
    /\ usernames[1] # usernames[Len(usernames)]

\* C5: a failed fetch (a None result or an exception raised in the worker)
\* never aborts the batch: a run that entered fetch_contributions_batch
\* eventually returns from it, at that point every dispatched fetch has been
\* collected and every record fetched is in the map, and if every identifier
\* failed the map is empty.
C5_FailureNeverAbortsBatch ==
    /\ [](main_pc = "fetch" => <>(coord = "returned"))
    /\ [](coord = "returned" =>
            /\ \A i \in TaskIds : task[i] = "collected"
            /\ \A i \in Succeeded : usernames[i] \in KeySet(batch_data)
            /\ Len(failed_users) = Cardinality(TaskIds \ Succeeded)
            /\ (Succeeded = {} => batch_data = EmptyDict))

\* a run that returned although a worker raised, with the record of another
\* identifier merged after that failure
C5_Witness ==
    /\ coord = "returned"
    /\ \E i, j \in TaskIds :
          /\ response[i].kind = "os_error"
          /\ response[j].kind = "user"
          /\ failed_users = <<usernames[i]>>
          /\ KeySeq(batch_data) = <<usernames[j]>>

\* C6: analyze_batch_contributions starts only after fetch_contributions_batch
\* has finished: every dispatched fetch has ended and has been merged, and the
\* map the aggregation reads is the final success map.
C6_AnalysisAfterFetch ==
    main_pc \in {"analyze", "visualize"} =>
        /\ coord = "returned"
        /\ \A i \in TaskIds : task[i] = "collected"
        /\ batch_data = results
        /\ KeySet(batch_data) = {usernames[i] : i \in Succeeded}

\* the aggregation has run on the map of a batch of two fetches
C6_Witness ==
    /\ main_pc = "visualize"
    /\ Len(usernames) = 2
    /\ analysis_data # NoAnalysis
    /\ analysis_data.aggregate_stats.total_users = Len(results)

\* main has ended the run at line 368 because no record was retrieved
EmptyBatchFailure == main_pc = "exit" /\ coord = "returned"

\* the queries of the run that the service answered with a null user
NotFound == {i \in TaskIds : response[i].kind = "null_user"}

\* C13: an identifier that is not found upstream is no key of the success map
\* and is on the failure list, which is that identifier alone when nothing
\* else failed; when it is the only identifier of the input the run ends with
\* the empty-batch failure and no aggregation has run; and the run ends with
\* that failure only when every fetch of the input failed.
C13_NotFoundAndEmptyBatch ==
    /\ coord = "returned" =>
          \A i \in NotFound :
              /\ \E n \in 1..Len(failed_users) : failed_users[n] = usernames[i]
              /\ (\A j \in TaskIds : usernames[j] = usernames[i] => j \in NotFound)
                    => usernames[i] \notin KeySet(batch_data)
              /\ TaskIds \ Succeeded = {i} => failed_users = <<usernames[i]>>
    /\ (Len(usernames) = 1 /\ NotFound = {1} /\ main_pc \notin {"load", "fetch", "check"})
          => EmptyBatchFailure
    /\ EmptyBatchFailure =>
          /\ Succeeded = {}
          /\ analysis_data = NoAnalysis
          /\ viz_data = NoVisualization
          /\ saved = NoFiles
    /\ (coord = "returned" /\ Succeeded # {}) => main_pc # "exit"
    /\ (coord = "returned" /\ Succeeded = {}) => main_pc \in {"check", "exit"}

\* the run of a users file with one identifier, which was not found, has ended
\* with the empty-batch failure
C13_Witness ==
    /\ EmptyBatchFailure
    /\ Len(usernames) = 1
    /\ NotFound = {1}
    /\ failed_users = <<usernames[1]>>
    /\ batch_data = EmptyDict

\* the calls of get_user_contributions that have ended
Ended == {i \in TaskIds : task[i] \in {"done", "collected"}}

\* the queries answered with a user object that lacks the contributions
Malformed == {i \in TaskIds : response[i].kind = "user" /\ ~HasContributions(response[i].user)}

\* The failure condition the i-th query meets: the entity is not found, the
\* external call fails (gh exits non-zero, or cannot be run), the payload is
\* undecodable or malformed; "none" for a well-formed answer.
FailureCondition(i) ==
    CASE response[i].kind = "null_user"                   -> "not_found"
      [] response[i].kind \in {"exit_nonzero", "os_error"} -> "process"
      [] response[i].kind = "bad_json"                    -> "payload"
      [] i \in Malformed                                  -> "payload"
      [] OTHER                                            -> "none"

\* what the caller of get_user_contributions gets to see of an outcome
Signal(o) == <<o.raised, o.value>>

\* C14 as stated: a call that met one of the three failure conditions does
\* not raise and hands its caller a failure signal, and the signals of two
\* calls that met different conditions differ.
C14_DistinctSignalsNeverRaise ==
    /\ \A i \in Ended :
          FailureCondition(i) # "none"
             => ~outcome[i].raised /\ ~Truthy(outcome[i].value)
    /\ \A i, j \in Ended :
          ( /\ FailureCondition(i) # "none"
            /\ FailureCondition(j) # "none"
            /\ FailureCondition(i) # FailureCondition(j) )
             => Signal(outcome[i]) # Signal(outcome[j])

\* C14 as amended: a call that found no user, whose gh exited non-zero, or
\* whose output was no JSON returns None without raising, the same value in
\* the three cases, which differ in the message printed only; a call whose
\* process could not be run raises; a user object is returned as it is, also
\* when it lacks the contributions.
C14_NoneForThreeFailures ==
    \A i \in Ended :
        /\ response[i].kind \in {"null_user", "exit_nonzero", "bad_json"} =>
              /\ Signal(outcome[i]) = <<FALSE, NoneValue>>
              /\ \A j \in Ended :
                    response[j].kind \in {"null_user", "exit_nonzero", "bad_json"} =>
                        /\ Signal(outcome[j]) = Signal(outcome[i])
                        /\ (outcome[j].printed = outcome[i].printed
                               <=> response[j].kind = response[i].kind)
        /\ response[i].kind = "os_error" => outcome[i].raised
        /\ response[i].kind = "user" => outcome[i] = Returns(response[i].user)

\* two calls have ended, one that found no user and one whose output was no
\* JSON, and the caller got None from both
C14_Witness ==
    \E i, j \in Ended :
        /\ response[i].kind = "null_user"
        /\ response[j].kind = "bad_json"
        /\ outcome[i].value = NoneValue
        /\ outcome[j].value = NoneValue
        /\ outcome[i].printed # outcome[j].printed

\* C15: an answer whose user object lacks the contributions is a failure of
\* that entity only: the identifier is no key of the success map, and the run
\* goes on to the aggregate statistics of the other entities instead of
\* ending in the aggregation.
C15_MalformedIsEntityFailure ==
    /\ coord = "returned" =>
          \A i \in Malformed :
              (\A j \in TaskIds : usernames[j] = usernames[i] => j \in Malformed)
                  => usernames[i] \notin KeySet(batch_data)
    /\ main_pc # "crashed"

\* a step in which a pool thread begins a call of get_user_contributions
FetchStarts == \E i \in TaskIds : task[i] # "running" /\ task'[i] = "running"

\* a step in which the coordinator merges the result of a completed fetch
ResultMerged == \E i \in TaskIds : task[i] = "done" /\ task'[i] = "collected"

\* C16: the coordinator answers every completed fetch with the pacing delay,
\* and no fetch starts from the completion of an earlier fetch to the end of
\* the delay that follows it: not while a completed fetch waits to be merged
\* and not while the coordinator sleeps.
C16_NoFetchStartsBeforeDelayEnds ==
    [][ /\ ResultMerged => coord' = "sleep"
        /\ (coord = "sleep" \/ \E j \in TaskIds : task[j] = "done") => ~FetchStarts
      ]_vars

\* a step of a pool thread: it takes a task, or its call ends
WorkerStep ==
    \E i \in TaskIds :
        \/ task[i] = "queued" /\ task'[i] = "running"
        \/ task[i] = "running" /\ task'[i] = "done"

\* C17: results and failed_users change only in a step of the coordinator in
\* which it merges the result of a completed future, one future per step;
\* every step of a pool thread leaves both unchanged.
C17_OnlyCoordinatorWritesMaps ==
    [][ /\ (results' # results \/ failed_users' # failed_users) =>
              /\ coord = "wait"
              /\ ResultMerged
              /\ Cardinality({i \in TaskIds : task'[i] # task[i]}) = 1
        /\ WorkerStep => UNCHANGED <<results, failed_users>>
      ]_vars

\* a pool thread is inside a call while the coordinator has already merged a
\* record into the map
C17_Witness ==
    /\ results # EmptyDict
    /\ \E i \in TaskIds : task[i] = "running"

\* the calls of get_user_contributions that have begun
Invoked == {i \in TaskIds : task[i] \in {"running", "done", "collected"}}

\* C18: every submitted identifier, repeated ones included, gets one call of
\* get_user_contributions and every call runs one gh command, the k-th command
\* being the one for the k-th identifier of the input; no command is run again
\* after a failure, so that a batch of n identifiers has run exactly n commands
\* when fetch_contributions_batch returns.
C18_OneQueryPerIdentifier ==
    /\ Len(queries) = Cardinality(Invoked)
    /\ \A k \in 1..Len(queries) : queries[k][1] = <<"username", usernames[k]>>
    /\ coord = "returned" =>
          /\ Invoked = TaskIds
          /\ Len(queries) = Len(usernames)

\* a batch that lists one identifier twice has returned after two commands,
\* the first of which failed
C18_Witness ==
    /\ coord = "returned"
    /\ Len(usernames) = 2
    /\ usernames[1] = usernames[2]
    /\ response[1].kind = "exit_nonzero"
    /\ Len(queries) = 2

\* the names of the variables a command hands to gh
FieldNames(cmd) == {cmd[n][1] : n \in 1..Len(cmd)}

\* '-01-01T00:00:00Z' and '-12-31T23:59:59Z'
StartOfYear ==
    << "-", "0", "1", "-", "0", "1", "T", "0", "0", ":", "0", "0", ":", "0", "0", "Z" >>

EndOfYear ==
    << "-", "1", "2", "-", "3", "1", "T", "2", "3", ":", "5", "9", ":", "5", "9", "Z" >>

\* C19: every command get_user_contributions has run carries both the from
\* and the to variable or neither, never one of them alone; with a year Y
\* given they are Y-01-01T00:00:00Z and Y-12-31T23:59:59Z (for 2024:
\* 2024-01-01T00:00:00Z and 2024-12-31T23:59:59Z), and without a year, or with
\* year 0, neither is sent.
C19_BothBoundsOrNeither ==
    \A k \in 1..Len(queries) :
        LET cmd == queries[k]
        IN  /\ "from" \in FieldNames(cmd) <=> "to" \in FieldNames(cmd)
            /\ "from" \in FieldNames(cmd) <=> (year # NoYear /\ year # <<0>>)
            /\ "from" \in FieldNames(cmd) =>
                  /\ DictGet(cmd, "from") = IntStr(year[1]) \o StartOfYear
                  /\ DictGet(cmd, "to") = IntStr(year[1]) \o EndOfYear
            /\ year = <<2024>> =>
                  /\ DictGet(cmd, "from") = <<"2", "0", "2", "4">> \o StartOfYear
                  /\ DictGet(cmd, "to") = <<"2", "0", "2", "4">> \o EndOfYear

\* a command was run for the year 2024 with both bounds
C19_Witness ==
    /\ year = <<2024>>
    /\ Len(queries) = 1
    /\ Len(queries[1]) = 3
    /\ FieldNames(queries[1]) = {"username", "from", "to"}

\* the identifiers on the failure list
FailedSet == {failed_users[n] : n \in 1..Len(failed_users)}

InputDistinct == \A i, j \in TaskIds : usernames[i] = usernames[j] => i = j

\* C24: when fetch_contributions_batch has returned on an input of pairwise
\* distinct identifiers, every identifier of the input is a key of results or
\* an element of failed_users and not both, failed_users lists no identifier
\* twice, and len(results) + len(failed_users) is the length of the input; on
\* every input, repetitions included, results holds one entry at most for an
\* identifier, and only identifiers of the input.
C24_SuccessAndFailurePartitionInput ==
    coord = "returned" =>
        /\ Cardinality(KeySet(results)) = Len(results)
        /\ KeySet(results) \cup FailedSet = {usernames[i] : i \in TaskIds}
        /\ InputDistinct =>
              /\ KeySet(results) \cap FailedSet = {}
              /\ Cardinality(FailedSet) = Len(failed_users)
              /\ Len(results) + Len(failed_users) = Len(usernames)

\* a returned batch of two distinct identifiers, one in the map and one on
\* the failure list
C24_Witness ==
    /\ coord = "returned"
    /\ InputDistinct
    /\ Len(usernames) = 2
    /\ Len(results) = 1
    /\ Len(failed_users) = 1
    /\ results[1][1] # failed_users[1]

-----------------------------------------------------------------------------
(* Properties of the aggregation engine.                                   *)

Analyzed == analysis_data # NoAnalysis

Aggregate == analysis_data.aggregate_stats

RECURSIVE FlatDays(_)
\* the day entries of a calendar, week boundaries dropped
FlatDays(weeks) ==
    IF weeks = <<>> THEN <<>>
    ELSE Head(weeks).contributionDays \o FlatDays(Tail(weeks))

\* the day entries of the i-th entity of the success map
EntityDays(batch, i) ==
    FlatDays(batch[i][2].contributionsCollection.contributionCalendar.weeks)

EntityDates(batch, i) ==
    {EntityDays(batch, i)[n].date : n \in 1..Len(EntityDays(batch, i))}

\* the sum of the counts of the i-th entity's day entries dated d
EntityCountOn(batch, i, d) ==
    LET days == EntityDays(batch, i)
    IN  SumSeq([n \in 1..Len(days) |->
                   IF days[n].date = d THEN days[n].contributionCount ELSE 0])

CalendarTotal(batch, i) ==
    batch[i][2].contributionsCollection.contributionCalendar.totalContributions

\* C7: for every date key d of daily_aggregate the value is the sum over all
\* entities of the counts of that entity's day entries dated d, and the key
\* set is the union of all entities' dates.
C7_DailyAggregateIsSumOverEntities ==
    Analyzed =>
        /\ KeySet(Aggregate.daily_aggregate)
              = UNION {EntityDates(batch_data, i) : i \in 1..Len(batch_data)}
        /\ \A d \in KeySet(Aggregate.daily_aggregate) :
              DictGet(Aggregate.daily_aggregate, d)
                 = SumSeq([i \in 1..Len(batch_data) |-> EntityCountOn(batch_data, i, d)])

\* two entities with a positive count on one date, one of them with a date
\* the other lacks
C7_Witness ==
    /\ Analyzed
    /\ Len(batch_data) = 2
    /\ \E d \in Dates :
          /\ EntityCountOn(batch_data, 1, d) > 0
          /\ EntityCountOn(batch_data, 2, d) > 0
          /\ DictGet(Aggregate.daily_aggregate, d)
                > EntityCountOn(batch_data, 1, d)
    /\ EntityDates(batch_data, 1) \ EntityDates(batch_data, 2) # {}

\* the count users_stats records for the i-th entity on date d, 0 when the
\* entity has no such key
RecordedCountOn(i, d) ==
    LET daily == analysis_data.users_stats[i][2].daily_contributions
    IN  IF DictHas(daily, d) THEN DictGet(daily, d) ELSE 0

\* C25: for every date d, daily_aggregate[d] is the sum over all entities of
\* users_stats[entity].daily_contributions[d], an absent key counting 0, also
\* when an entity's calendar lists a date in more than one day entry.
C25_DailyAggregateIsSumOfRecordedCounts ==
    Analyzed =>
        \A d \in Dates :
            (IF DictHas(Aggregate.daily_aggregate, d)
             THEN DictGet(Aggregate.daily_aggregate, d) ELSE 0)
               = SumSeq([i \in 1..Len(analysis_data.users_stats) |-> RecordedCountOn(i, d)])

\* C8: for every month key m, monthly_aggregate[m] is the sum of
\* daily_aggregate[d] over the date keys d whose first 7 characters are m,
\* and every date key has its month key present.
C8_MonthlyIsSumOfDaily ==
    Analyzed =>
        LET daily   == Aggregate.daily_aggregate
            monthly == Aggregate.monthly_aggregate
        IN  /\ \A m \in KeySet(monthly) :
                  DictGet(monthly, m)
                     = SumSeq([n \in 1..Len(daily) |->
                                  IF SubSeq(daily[n][1], 1, 7) = m
                                  THEN daily[n][2] ELSE 0])
            /\ \A d \in KeySet(daily) : SubSeq(d, 1, 7) \in KeySet(monthly)

\* a month with two date keys of positive value beside another month
C8_Witness ==
    /\ Analyzed
    /\ Len(Aggregate.monthly_aggregate) = 2
    /\ \E d1, d2 \in KeySet(Aggregate.daily_aggregate) :
          /\ d1 # d2
          /\ SubSeq(d1, 1, 7) = SubSeq(d2, 1, 7)
          /\ DictGet(Aggregate.daily_aggregate, d1) > 0
          /\ DictGet(Aggregate.daily_aggregate, d2) > 0

\* the success map without its i-th entity
WithoutEntity(batch, i) == SubSeq(batch, 1, i - 1) \o SubSeq(batch, i + 1, Len(batch))

ActiveUsers(batch) == analyze_batch_contributions(batch).aggregate_stats.active_users

ActiveIsCountOfPositiveTotals ==
    Aggregate.active_users
        = Cardinality({i \in 1..Len(batch_data) : CalendarTotal(batch_data, i) > 0})

\* the i-th entity has day entries and every one of them has count zero
AllDailyCountsZero(batch, i) ==
    /\ EntityDays(batch, i) # <<>>
    /\ \A n \in 1..Len(EntityDays(batch, i)) :
          EntityDays(batch, i)[n].contributionCount = 0

\* C9 as stated: active_users is the number of entities whose calendar total
\* is > 0, and an entity whose daily counts are all zero adds nothing to it.
C9_AllZeroDailyLeavesActiveUnchanged ==
    Analyzed =>
        /\ ActiveIsCountOfPositiveTotals
        /\ \A i \in 1..Len(batch_data) :
              AllDailyCountsZero(batch_data, i)
                 => Aggregate.active_users = ActiveUsers(WithoutEntity(batch_data, i))

\* C9 as amended: active_users is the number of entities whose calendar total
\* is > 0, and an entity whose calendar total is zero adds nothing to it.
C9_ZeroTotalLeavesActiveUnchanged ==
    Analyzed =>
        /\ ActiveIsCountOfPositiveTotals
        /\ \A i \in 1..Len(batch_data) :
              CalendarTotal(batch_data, i) = 0
                 => Aggregate.active_users = ActiveUsers(WithoutEntity(batch_data, i))

\* a map with an entity of calendar total zero and positive daily counts, which
\* is not counted, beside an entity of positive calendar total, which is
C9_Witness ==
    /\ Analyzed
    /\ Len(batch_data) = 2
    /\ Aggregate.active_users = 1
    /\ \E i \in 1..2 :
          /\ CalendarTotal(batch_data, i) = 0
          /\ \E d \in Dates : EntityCountOn(batch_data, i, d) > 0

\* the list of one field of the contributionsCollection over the entities
CategoryTotals(batch, field) ==
    [i \in 1..Len(batch) |-> batch[i][2].contributionsCollection[field]]

\* C10: total_contributions is the sum of the calendar totals of the
\* entities of the success map, and total_commits, total_issues, total_prs and
\* total_reviews are the sums of the corresponding category totals.
C10_TotalsAreSums ==
    Analyzed =>
        /\ Aggregate.total_contributions
              = SumSeq([i \in 1..Len(batch_data) |-> CalendarTotal(batch_data, i)])
        /\ Aggregate.total_commits
              = SumSeq(CategoryTotals(batch_data, "totalCommitContributions"))
        /\ Aggregate.total_issues
              = SumSeq(CategoryTotals(batch_data, "totalIssueContributions"))
        /\ Aggregate.total_prs
              = SumSeq(CategoryTotals(batch_data, "totalPullRequestContributions"))
        /\ Aggregate.total_reviews
              = SumSeq(CategoryTotals(batch_data, "totalPullRequestReviewContributions"))

\* two entities whose totals differ in every category
C10_Witness ==
    /\ Analyzed
    /\ Len(batch_data) = 2
    /\ CalendarTotal(batch_data, 1) # CalendarTotal(batch_data, 2)
    /\ Aggregate.total_issues = 3
    /\ Aggregate.total_prs = 2
    /\ Aggregate.total_contributions = 14


\* C11: top_contributors holds exactly one entry for every entity of the
\* success map and no other entry, every entry carries the calendar total of
\* its entity, and along the list the totals never increase.
C11_RankingIsSortedPermutation ==
    Analyzed =>
        LET top == Aggregate.top_contributors
        IN  /\ Len(top) = Len(batch_data)
            /\ \A k \in KeySet(batch_data) :
                  Cardinality({i \in 1..Len(top) : top[i].username = k}) = 1
            /\ \A i \in 1..Len(top) :
                  /\ top[i].username \in KeySet(batch_data)
                  /\ \E n \in 1..Len(batch_data) :
                        /\ batch_data[n][1] = top[i].username
                        /\ top[i].contributions = CalendarTotal(batch_data, n)
            /\ \A i \in 1..(Len(top) - 1) :
                  top[i].contributions >= top[i + 1].contributions

\* a map whose second entity has the larger total, so that the ranking is not
\* the order of the map
C11_Witness ==
    /\ Analyzed
    /\ Len(batch_data) = 2
    /\ CalendarTotal(batch_data, 1) < CalendarTotal(batch_data, 2)
    /\ Aggregate.top_contributors[1].username = batch_data[2][1]

\* the i-th entity has no day entry, a calendar total of zero and a category
\* total that is not zero
QuietEntity(batch, i) ==
    /\ EntityDays(batch, i) = <<>>
    /\ CalendarTotal(batch, i) = 0
    /\ \E n \in 1..4 :
          CategoryTotals(batch, << "totalCommitContributions",
                                   "totalIssueContributions",
                                   "totalPullRequestContributions",
                                   "totalPullRequestReviewContributions" >>[n])[i] # 0

\* C22: compared with the analysis of the map without it, an entity with no
\* day entries, category totals that are not all zero and a calendar total
\* of zero adds its category totals to the four category sums and changes
\* neither daily_aggregate nor monthly_aggregate nor active_users nor
\* total_contributions; and the calendar total kept for every entity is the
\* one reported for it, whatever its category totals and daily counts are.
C22_QuietEntityCountsInCategoriesOnly ==
    Analyzed =>
        /\ \A i \in 1..Len(batch_data) :
              DictGet(analysis_data.users_stats, batch_data[i][1]).total_contributions
                 = CalendarTotal(batch_data, i)
        /\ \A i \in 1..Len(batch_data) :
              QuietEntity(batch_data, i) =>
                 LET rest == analyze_batch_contributions(WithoutEntity(batch_data, i))
                                .aggregate_stats
                     cc   == batch_data[i][2].contributionsCollection
                 IN  /\ Aggregate.total_commits
                           = rest.total_commits + cc.totalCommitContributions
                     /\ Aggregate.total_issues
                           = rest.total_issues + cc.totalIssueContributions
                     /\ Aggregate.total_prs
                           = rest.total_prs + cc.totalPullRequestContributions
                     /\ Aggregate.total_reviews
                           = rest.total_reviews + cc.totalPullRequestReviewContributions
                     /\ Aggregate.daily_aggregate = rest.daily_aggregate
                     /\ Aggregate.monthly_aggregate = rest.monthly_aggregate
                     /\ Aggregate.active_users = rest.active_users
                     /\ Aggregate.total_contributions = rest.total_contributions

\* a map of an entity without day entries, with calendar total zero and two
\* commits, beside an active entity with day entries
C22_Witness ==
    /\ Analyzed
    /\ Len(batch_data) = 2
    /\ QuietEntity(batch_data, 2)
    /\ batch_data[2][2].contributionsCollection.totalCommitContributions = 2
    /\ CalendarTotal(batch_data, 1) > 0
    /\ EntityDays(batch_data, 1) # <<>>
    /\ Aggregate.active_users = 1
    /\ Aggregate.total_commits > 2

-----------------------------------------------------------------------------
(* Properties of the projection.                                           *)

Projected == viz_data # NoVisualization

\* the position of login u in the success map
EntityIndex(batch, u) == CHOOSE n \in 1..Len(batch) : batch[n][1] = u

\* the count of the last of the i-th entity's day entries dated d
EntityLastCountOn(batch, i, d) ==
    LET days == EntityDays(batch, i)
        last == CHOOSE n \in 1..Len(days) :
                    /\ days[n].date = d
                    /\ \A k \in (n + 1)..Len(days) : days[k].date # d
    IN  days[last].contributionCount

\* the keys of top_users_trend are the first K identifiers of the ranking
TrendKeysAreFirst(K) ==
    LET top == Aggregate.top_contributors
    IN  KeySeq(viz_data.top_users_trend)
           = [i \in 1..Min(K, Len(top)) |-> top[i].username]

\* every series of top_users_trend has strictly ascending dates, which are
\* exactly the dates of the entity's own calendar, each with the count the
\* calendar lists for it (the last one when a date is listed twice)
TrendSeriesAreOwnRecords ==
    LET trend == viz_data.top_users_trend
    IN  \A n \in 1..Len(trend) :
           LET series == trend[n][2]
               e      == EntityIndex(batch_data, trend[n][1])
           IN  /\ \A i \in 1..(Len(series) - 1) :
                     StrLess(series[i].date, series[i + 1].date)
               /\ {series[i].date : i \in 1..Len(series)} = EntityDates(batch_data, e)
               /\ \A i \in 1..Len(series) :
                     series[i].contributions
                        = EntityLastCountOn(batch_data, e, series[i].date)

\* C12 as stated: K is a parameter of the run, and whatever it is set to the
\* keys of the trend projection are the first K identifiers of the ranking
\* (K = 1 leaves the series of the top entity only); every series has
\* strictly ascending dates and holds the entity's own dates and counts.
C12_TrendOfFirstKForEveryK ==
    Projected =>
        /\ \A K \in 1..TrendTopUsers : TrendKeysAreFirst(K)
        /\ TrendSeriesAreOwnRecords

\* C12 as amended: the keys of the trend projection are the first 10
\* identifiers of the ranking, all of them when there are fewer; every series
\* has strictly ascending dates and holds the entity's own dates and counts.
C12_TrendOfFirstTen ==
    Projected =>
        /\ TrendKeysAreFirst(TrendTopUsers)
        /\ TrendSeriesAreOwnRecords

\* a ranking of more than ten entities, the last of which has no series, with
\* series that differ from the order the calendar lists the days in
C12_Witness ==
    /\ Projected
    /\ Len(Aggregate.top_contributors) > TrendTopUsers
    /\ Len(viz_data.top_users_trend) = TrendTopUsers
    /\ ~DictHas(viz_data.top_users_trend,
                Aggregate.top_contributors[Len(Aggregate.top_contributors)].username)
    /\ viz_data.top_users_trend[1][2][1].date = Jan01

\* C21: user_comparison holds exactly one entry for every entity of the
\* per-entity statistics, along the list the calendar totals never increase,
\* and every entry carries the calendar total and the commit, issue, pull
\* request and review totals of the record fetched for its entity.
C21_UserComparisonSortedWithBreakdown ==
    Projected =>
        LET uc == viz_data.user_comparison
        IN  /\ Len(uc) = Len(analysis_data.users_stats)
            /\ \A k \in KeySet(analysis_data.users_stats) :
                  Cardinality({i \in 1..Len(uc) : uc[i].username = k}) = 1
            /\ \A i \in 1..(Len(uc) - 1) :
                  uc[i].total_contributions >= uc[i + 1].total_contributions
            /\ \A i \in 1..Len(uc) :
                  /\ uc[i].username \in KeySet(batch_data)
                  /\ LET e  == EntityIndex(batch_data, uc[i].username)
                         cc == batch_data[e][2].contributionsCollection
                     IN  /\ uc[i].total_contributions = CalendarTotal(batch_data, e)
                         /\ uc[i].commits = cc.totalCommitContributions
                         /\ uc[i].issues  = cc.totalIssueContributions
                         /\ uc[i].prs     = cc.totalPullRequestContributions
                         /\ uc[i].reviews = cc.totalPullRequestReviewContributions

\* a comparison list whose first entry is the second entity of the map, with
\* issue and pull request totals that differ
C21_Witness ==
    /\ Projected
    /\ Len(batch_data) = 2
    /\ CalendarTotal(batch_data, 1) < CalendarTotal(batch_data, 2)
    /\ viz_data.user_comparison[1].username = batch_data[2][1]
    /\ viz_data.user_comparison[1].issues # viz_data.user_comparison[1].prs

Saved == saved # NoFiles

\* C23: the summary document holds the aggregate statistics and a ranking
\* slice, and no ranking in it, neither the slice nor one inside the aggregate
\* statistics, lists more than 20 entities, however many entities the run
\* analysed.
C23_SummaryListsAtMostTwenty ==
    Saved =>
        /\ DOMAIN saved.summary = {"summary", "top_contributors"}
        /\ Len(saved.summary.top_contributors) <= SummaryTopUsers
        /\ Len(saved.summary.summary.top_contributors) <= SummaryTopUsers

-----------------------------------------------------------------------------
(* Properties of the ranking of a pipeline run.                            *)

RECURSIVE MergedInInputOrder(_)
\* the success map of the run in which the first n fetches are merged in the
\* order of the input
MergedInInputOrder(n) ==
    IF n = 0 THEN EmptyDict
    ELSE IF n \in Succeeded
         THEN DictSet(MergedInInputOrder(n - 1), usernames[n], response[n].user)
         ELSE MergedInInputOrder(n - 1)

\* the identifiers of a ranking, first to last
RankedNames(top) == [i \in 1..Len(top) |-> top[i].username]

\* the ranking of the run that merges in the order of the input
RankingInInputOrder ==
    RankedNames(analyze_batch_contributions(MergedInInputOrder(Len(usernames)))
                    .aggregate_stats.top_contributors)

TotalsDistinct ==
    \A a, b \in 1..Len(batch_data) :
        a # b => CalendarTotal(batch_data, a) # CalendarTotal(batch_data, b)

\* C20: the map the ranking is computed from lists the entities in the order
\* their fetches were merged, and two entities with equal calendar totals are
\* ranked in that order; with a fetcher whose outcome is a function of the
\* identifier and totals that are pairwise distinct, the ranking is the one of
\* the run that merges in input order, whatever the order of this run was.
C20_TiesRankedInMergeOrder ==
    (main_pc \in {"visualize", "summary"} /\ Analyzed) =>
        LET top == Aggregate.top_contributors
        IN  /\ batch_data = results
            /\ \A i, j \in 1..Len(top) :
                  (i < j /\ top[i].contributions = top[j].contributions)
                     => EntityIndex(results, top[i].username)
                           < EntityIndex(results, top[j].username)
            /\ (FetcherIsFunctionOfId /\ TotalsDistinct)
                  => RankedNames(top) = RankingInInputOrder

\* with a worker bound above 1, two entities of equal totals were merged
\* against the order of the input: the ranking is not the one of the run that
\* merges in input order
C20_Witness ==
    /\ Analyzed
    /\ max_workers > 1
    /\ FetcherIsFunctionOfId
    /\ Len(batch_data) = 2
    /\ CalendarTotal(batch_data, 1) = CalendarTotal(batch_data, 2)
    /\ KeySeq(results) = <<usernames[2], usernames[1]>>
    /\ RankedNames(Aggregate.top_contributors) = <<usernames[2], usernames[1]>>
    /\ RankingInInputOrder = <<usernames[1], usernames[2]>>

\* C26: the identifiers of user_comparison, first to last, are those of
\* top_contributors, entities of equal calendar totals in the same order in
\* both, and the keys of top_users_trend are the first min(10, n) identifiers
\* of either list.
C26_ComparisonOrderIsRankingOrder ==
    Projected =>
        LET names == RankedNames(viz_data.user_comparison)
            top   == RankedNames(Aggregate.top_contributors)
        IN  /\ names = top
            /\ KeySeq(viz_data.top_users_trend)
                  = SubSeq(names, 1, Min(TrendTopUsers, Len(names)))
            /\ KeySeq(viz_data.top_users_trend)
                  = SubSeq(top, 1, Min(TrendTopUsers, Len(top)))

\* more entities than trend series, the ranking not in the order of the map,
\* and two neighbours of equal totals among the first ten as well as at the
\* cut between the tenth and the eleventh
C26_Witness ==
    /\ Projected
    /\ Len(viz_data.user_comparison) > TrendTopUsers
    /\ Len(viz_data.top_users_trend) = TrendTopUsers
    /\ RankedNames(viz_data.user_comparison) # KeySeq(batch_data)
    /\ viz_data.user_comparison[1].total_contributions
          = viz_data.user_comparison[2].total_contributions
    /\ viz_data.user_comparison[TrendTopUsers].total_contributions
          = viz_data.user_comparison[TrendTopUsers + 1].total_contributions

-----------------------------------------------------------------------------
(* Properties of the user listings.                                        *)

\* the page is empty, or its request or its decoding failed
StopsListing(fn, answer) ==
    \/ answer.status \in {"request_failed", "bad_json"}
    \/ answer.status = "ok" /\ answer.users = <<>>
    \/ answer.status = "object" /\ fn # "github_users_enhanced.get_organization_members"

\* the page carries users, each with every key the listing subscripts
CarriesUsers(fn, answer) ==
    /\ answer.status = "ok"
    /\ answer.users # <<>>
    /\ \A n \in 1..Len(answer.users) :
          (IF fn = "github_users_gh.search_github_users_with_gh"
           THEN SubscriptedKeys \cup {"score"} ELSE SubscriptedKeys)
              \subseteq DOMAIN answer.users[n]

\* the pages of the run before the first one that carries no users
FetchedPages ==
    {p \in 1..max_pages : \A q \in 1..p : CarriesUsers(listing, service_pages[q])}

RECURSIVE UsersOfPages(_)
\* the user objects of pages 1..k, in page order
UsersOfPages(k) ==
    IF k = 0 THEN <<>> ELSE UsersOfPages(k - 1) \o service_pages[k].users

\* C27: each listing requests pages 1, 2, ... in order and never more than
\* max_pages of them; at the first page that is empty or whose request or
\* decoding fails it stops and returns, and what it returns are the users of
\* the pages fetched before that stop, in page order, also when the stop is
\* an error on a later page; it returns all the pages when none stops it.
C27_PagesInOrderUntilFirstStop ==
    LET k == Cardinality(FetchedPages)
    IN  /\ requested = [n \in 1..Len(requested) |-> n]
        /\ Len(requested) <= max_pages
        /\ (pager_pc \in {"loop", "break", "raised", "returned"} /\ k < max_pages
              /\ StopsListing(listing, service_pages[k + 1]))
              => /\ pager_pc # "raised"
                 /\ Len(requested) <= k + 1
        /\ pager_pc = "returned"
              => /\ k = max_pages \/ StopsListing(listing, service_pages[k + 1])
                 /\ Len(requested) = Min(k + 1, max_pages)
                 /\ Len(listed) = Len(UsersOfPages(k))
                 /\ \A n \in 1..Len(listed) :
                       /\ listed[n].login = UsersOfPages(k)[n].login
                       /\ listed[n].id = UsersOfPages(k)[n].id
                       /\ listed[n].html_url = UsersOfPages(k)[n].html_url

\* a listing that returned the users of two pages after the request of the
\* third page failed
C27_Witness ==
    /\ pager_pc = "returned"
    /\ requested = <<1, 2, 3>>
    /\ service_pages[3].status = "request_failed"
    /\ service_pages[1].users # service_pages[2].users
    /\ Len(listed) = Len(service_pages[1].users) + Len(service_pages[2].users)
    /\ Len(listed) > 2

====
